---------------------------- MODULE Spec2Model ----------------------------
(***************************************************************************)
(* Model of src/tmc2130_linearity.py: the TMC2130 linearity-correction     *)
(* plugin.  The parts of the plugin are modelled each with its own         *)
(* specification over the same variables:                                  *)
(*   SpecCompress  _write_wave_table: MSLUT compression and register writes*)
(*   SpecPlan      _goto_step / _perform_force_move_steps: motion planning *)
(*   SpecGen       _generate_constant_torque_wave: carry quantizer         *)
(*   SpecWave      the TMC_SET_WAVE commands and the initial configuration *)
(*   SpecStep      the TMC_SET_STEP commands                               *)
(*   SpecMove      _perform_force_move_steps pulse by pulse, with times    *)
(*   SpecRegen     generation followed by the write, for any theoretical   *)
(*                 values                                                  *)
(*   SpecEncode    _write_wave_table on tables that vary at indices 0..2   *)
(*   SpecCompressFair  SpecCompress with the call running to its end       *)
(***************************************************************************)
EXTENDS Integers, Sequences, FiniteSets

VARIABLES
    \* ---- _write_wave_table (lines 362-492) ----
    wave_table,   \* the table (0-based index k is wave_table[k+1])
    pc,           \* position in the handler
    va, d0, d1, w, x, s, b, i, reg,   \* the locals of lines 385-395
    writes,       \* register writes issued: sequence of <<field, value>>
    bits,         \* history: the class bit b emitted for each encoded index
    switches,     \* history: number of times the loop reassigned (d0, d1)
    error,        \* exception that left the handler ("none" if none)
    \* ---- _goto_step (lines 634-709) ----
    mscnt_reg, microstep_resolution, target_step, axis_inverted,
    step_pin, dir_pin,            \* TRUE when the pin object exists
    shift, cnt, dir, flips,       \* locals of _goto_step; flips counts dir ^= 1
    dir_pin_writes,               \* levels written to the direction pin
    step_pin_writes,              \* number of set_digital calls on the step pin
    \* ---- _generate_constant_torque_wave (lines 324-360) ----
    theo,         \* theoretical_value per index, in units of 1/Scale
    carry, prev_theoretical_value,  \* in units of 1/Scale
    \* ---- the command handlers (lines 512-566) ----
    cmd,                \* the handler running or last run: "none", "init",
                        \* "set_wave", "set_step"
    factor_offset,      \* the offset a TMC_SET_WAVE command was registered with
    linearity_factor,   \* self.linearity_factor
    factor_before,      \* history: linearity_factor when the command arrived
    response,           \* what the command answered: "none", "ok", "failed"
    first_table,        \* history: per factor, the first table generated for it
    mres_field,         \* what _get_tmc_field('mres') returned
    step_pos,           \* the position a TMC_SET_STEP command was registered with
    \* ---- _perform_force_move_steps (lines 711-758) ----
    step_inverted,      \* _get_step_pin_inversion()
    print_time,         \* in microseconds
    step,               \* the loop variable of lines 739-742
    pin_log             \* set_digital calls: sequence of [pin, time, level]

vars == << wave_table, pc, va, d0, d1, w, x, s, b, i, reg, writes, bits,
           switches, error,
           mscnt_reg, microstep_resolution, target_step, axis_inverted,
           step_pin, dir_pin, shift, cnt, dir, flips, dir_pin_writes,
           step_pin_writes, theo, carry, prev_theoretical_value,
           cmd, factor_offset, linearity_factor, factor_before, response,
           first_table, mres_field, step_pos, step_inverted, print_time, step,
           pin_log >>

compressVars == << wave_table, va, d0, d1, w, x, s, b, i, reg, writes, bits,
                  switches >>
planVars == << mscnt_reg, microstep_resolution, target_step, axis_inverted,
               step_pin, dir_pin, shift, cnt, dir, flips, dir_pin_writes,
               step_pin_writes >>
genVars == << theo, carry, prev_theoretical_value >>
cmdVars == << cmd, factor_offset, linearity_factor, factor_before, response,
              first_table, mres_field, step_pos >>
moveVars == << step_inverted, print_time, step, pin_log >>

---------------------------------------------------------------------------
\* Program constants

AMPLITUDE == 248
SIN0 == 0
MIN_LINEARITY_FACTOR == 1000
MAX_LINEARITY_FACTOR == 1200
TableLen == 256
WordBits == 32
\* A 32-bit register value is kept as its two 16-bit halves [hi, lo]: the
\* value is hi * Half + lo, and 0x80000000 is the top bit of hi.
Half == 65536
HalfMsb == 32768

\* Bounds of the model
MaxJumps == 2
CounterStride == 93
MaxBreaks == 1

\* Theoretical values, carry and slopes are floating-point numbers in the
\* code; here they are integers in units of 1/Scale.
Scale == 4096

---------------------------------------------------------------------------
\* Helpers

RECURSIVE Pow2(_)
Pow2(n) == IF n = 0 THEN 1 ELSE 2 * Pow2(n - 1)

Bit(v, k) == (v \div Pow2(k)) % 2

\* bit k (0..31, and above) of a register value kept as halves
RegBit(r, k) == IF k < 16 THEN Bit(r.lo, k) ELSE Bit(r.hi, k - 16)

RegZero == [hi |-> 0, lo |-> 0]

RECURSIVE SumOver(_, _)
SumOver(f, S) ==
    IF S = {} THEN 0
    ELSE LET p == CHOOSE q \in S : TRUE IN f[p] + SumOver(f, S \ {p})

---------------------------------------------------------------------------
\* Input tables for the compressor.  A table is flat except for jumps at
\* the indices in ChoicePts: the first and second index, both sides of a
\* 32-entry block boundary, and the last index.

ChoicePts == {0, 1, 31, 32, 255}
JumpSizes == {-2, -1, 1, 2, 3, 4, 10}

JumpMaps ==
    { f \in [ChoicePts -> JumpSizes \cup {0}] :
        Cardinality({p \in ChoicePts : f[p] # 0}) <= MaxJumps }

TableOf(f) ==
    [k \in 1..TableLen |-> SumOver(f, {p \in ChoicePts : p <= k - 1})]

InRange(t) == \A k \in 1..Len(t) : t[k] >= SIN0 /\ t[k] <= AMPLITUDE

Tables == { t \in { TableOf(f) : f \in JumpMaps } : InRange(t) }

\* delta of table t at 0-based index k (the value before index 0 is 0)
DeltaAt(t, k) == t[k + 1] - (IF k = 0 THEN 0 ELSE t[k])


---------------------------------------------------------------------------
\* _write_wave_table: the delta encoder (lines 409-457)

\* FamilyDown that has no family for a delta of 0
FamilyDownNoZero(dA) ==
    CASE dA = -1 -> [d0 |-> -1, d1 |-> 0, code |-> 0]
      [] dA = 1  -> [d0 |-> 1, d1 |-> 2, code |-> 2]
      [] OTHER   -> [d0 |-> 0, d1 |-> 0, code |-> -1]

\* "delta < delta0 => switch wbit down": the family for dA, code -1 if none
FamilyDown(dA) ==
    CASE dA = -1 -> [d0 |-> -1, d1 |-> 0, code |-> 0]
      [] dA = 0  -> [d0 |-> 0, d1 |-> 1, code |-> 1]
      [] dA = 1  -> [d0 |-> 1, d1 |-> 2, code |-> 2]
      [] OTHER   -> [d0 |-> 0, d1 |-> 0, code |-> -1]

\* FamilyUp that has no family for a delta of 2
FamilyUpNoTwo(dA) ==
    CASE dA = 1 -> [d0 |-> 0, d1 |-> 1, code |-> 1]
      [] dA = 3 -> [d0 |-> 2, d1 |-> 3, code |-> 3]
      [] OTHER  -> [d0 |-> 0, d1 |-> 0, code |-> -1]

\* "delta > delta1 => switch wbit up"
FamilyUp(dA) ==
    CASE dA = 1 -> [d0 |-> 0, d1 |-> 1, code |-> 1]
      [] dA = 2 -> [d0 |-> 1, d1 |-> 2, code |-> 2]
      [] dA = 3 -> [d0 |-> 2, d1 |-> 3, code |-> 3]
      [] OTHER  -> [d0 |-> 0, d1 |-> 0, code |-> -1]

\* SetW that stores the code in the slot of the segment that ends
SetWSameSlot(ws, seg, code) == [ws EXCEPT ![seg + 1] = code]

\* "if s+1 < 4: w[s+1] = code"  (w[k] of the code is w[k+1] here)
SetW(ws, seg, code) ==
    IF seg + 1 < 4 THEN [ws EXCEPT ![seg + 2] = code] ELSE ws

\* "if b >= 0 and s < 3: x[s] = i; s += 1"
SetX(xs, seg, bb, idx) ==
    IF bb >= 0 /\ seg < 3 THEN [xs EXCEPT ![seg + 1] = idx] ELSE xs

\* NextS without the "s < 3" guard of line 419
NextSUnguarded(seg, bb) == IF bb >= 0 THEN seg + 1 ELSE seg

NextS(seg, bb) == IF bb >= 0 /\ seg < 3 THEN seg + 1 ELSE seg

\* One pass of lines 406-457 for delta dA at index idx.
Encode(dA, e0, e1, ws, xs, seg, idx) ==
    IF dA = e0 THEN
        [b |-> 0, d0 |-> e0, d1 |-> e1, w |-> ws, x |-> xs, s |-> seg, sw |-> 0]
    ELSE IF dA = e1 THEN
        [b |-> 1, d0 |-> e0, d1 |-> e1, w |-> ws, x |-> xs, s |-> seg, sw |-> 0]
    ELSE IF dA < e0 THEN
        LET f == FamilyDown(dA)
            bb == IF f.code >= 0 THEN 0 ELSE -1
        IN  IF f.code >= 0
            THEN [b |-> bb, d0 |-> f.d0, d1 |-> f.d1, w |-> SetW(ws, seg, f.code),
                  x |-> SetX(xs, seg, bb, idx), s |-> NextS(seg, bb), sw |-> 1]
            ELSE [b |-> bb, d0 |-> e0, d1 |-> e1, w |-> ws,
                  x |-> SetX(xs, seg, bb, idx), s |-> NextS(seg, bb), sw |-> 0]
    ELSE IF dA > e1 THEN
        LET f == FamilyUp(dA)
            bb == IF f.code >= 0 THEN 1 ELSE -1
        IN  IF f.code >= 0
            THEN [b |-> bb, d0 |-> f.d0, d1 |-> f.d1, w |-> SetW(ws, seg, f.code),
                  x |-> SetX(xs, seg, bb, idx), s |-> NextS(seg, bb), sw |-> 1]
            ELSE [b |-> bb, d0 |-> e0, d1 |-> e1, w |-> ws,
                  x |-> SetX(xs, seg, bb, idx), s |-> NextS(seg, bb), sw |-> 0]
    ELSE
        [b |-> -1, d0 |-> e0, d1 |-> e1, w |-> ws, x |-> xs, s |-> seg, sw |-> 0]

\* LoopBreaks of a loop that runs on after a delta without a family
LoopNeverBreaks(bb, seg) == FALSE

\* "if b < 0: break / if s > 3: break"  (lines 459-463)
LoopBreaks(bb, seg) == bb < 0 \/ seg > 3

\* "if (i & 0x1f) == 0: reg = 0"  (lines 399-400)
StartBlock(r, idx) == IF idx % WordBits = 0 THEN RegZero ELSE r

\* SetMsb with the mask off by one bit (0x40000000)
SetMsbWrongBit(r, bb) ==
    IF bb = 1 /\ Bit(r.hi, 14) = 0 THEN [r EXCEPT !.hi = r.hi + (HalfMsb \div 2)] ELSE r

\* "if b == 1: reg |= 0x80000000"  (lines 466-467)
SetMsb(r, bb) ==
    IF bb = 1 /\ Bit(r.hi, 15) = 0 THEN [r EXCEPT !.hi = r.hi + HalfMsb] ELSE r

\* "reg >>= 1"  (line 474)
ShiftReg(r) ==
    [hi |-> r.hi \div 2, lo |-> (r.lo \div 2) + (r.hi % 2) * HalfMsb]

\* "(i & 31) == 31"  (line 469)
BlockEnd(idx) == idx % WordBits = WordBits - 1

MSLUT == << "mslut0", "mslut1", "mslut2", "mslut3",
            "mslut4", "mslut5", "mslut6", "mslut7" >>

\* _set_tmc_field (lines 494-510) called for the first n fields of fs: each
\* call issues one register write.  The driver object is connected and knows
\* every field (lookup_register finds it); a call whose set_register raises
\* issues no write and the exception leaves _write_wave_table.
SetTmcFields(log, fs, n) == log \o SubSeq(fs, 1, n)

---------------------------------------------------------------------------
\* Values of the variables a specification does not use

PlanIdle ==
    /\ mscnt_reg = 0 /\ microstep_resolution = 256 /\ target_step = 0
    /\ axis_inverted = FALSE /\ step_pin = FALSE /\ dir_pin = FALSE
    /\ shift = 0 /\ cnt = 0 /\ dir = 2 /\ flips = 0
    /\ dir_pin_writes = << >> /\ step_pin_writes = 0

GenIdle ==
    /\ theo = << >> /\ carry = 0 /\ prev_theoretical_value = 0

CmdIdle ==
    /\ cmd = "none" /\ factor_offset = 0
    /\ linearity_factor = MIN_LINEARITY_FACTOR
    /\ factor_before = MIN_LINEARITY_FACTOR
    /\ response = "none" /\ first_table = << >>
    /\ mres_field = 0 /\ step_pos = 0

MoveIdle ==
    /\ step_inverted = FALSE /\ print_time = 0 /\ step = 0 /\ pin_log = << >>

\* The locals of _write_wave_table as lines 385-395 initialise them
CompressLocalsInit ==
    /\ va = 0 /\ d0 = 0 /\ d1 = 1
    /\ w = << 1, 1, 1, 1 >>
    /\ x = << 255, 255, 255 >>
    /\ s = 0 /\ b = 0 /\ i = 0 /\ reg = RegZero
    /\ writes = << >> /\ bits = << >> /\ switches = 0

---------------------------------------------------------------------------
\* _write_wave_table as a state machine (lines 362-492)

InitCompress ==
    /\ wave_table \in Tables
    /\ pc = "start"
    /\ error = "none"
    /\ CompressLocalsInit
    /\ PlanIdle /\ GenIdle /\ CmdIdle /\ MoveIdle

\* lines 376-382: MSLUTSTART.  n of the two writes succeed; the next raises.
WriteStart ==
    /\ pc = "start"
    /\ \E n \in 0..2 :
         /\ writes' = SetTmcFields(writes,
                << <<"start_sin", SIN0 % 256>>, <<"start_sin90", AMPLITUDE % 256>> >>, n)
         /\ IF n = 2
            THEN pc' = "loop" /\ error' = error
            ELSE pc' = "raised" /\ error' = "TransportFailure"
    /\ UNCHANGED << wave_table, va, d0, d1, w, x, s, b, i, reg, bits, switches >>
    /\ UNCHANGED << planVars, genVars, cmdVars, moveVars >>

\* lines 398-479: one iteration of the compression loop at index i
CompressLoop ==
    /\ pc = "loop"
    /\ LET reg0 == StartBlock(reg, i)
           vA   == wave_table[i + 1]
           dA   == vA - va
           e    == Encode(dA, d0, d1, w, x, s, i)
           reg1 == SetMsb(reg0, e.b)
       IN  /\ va' = vA
           /\ b' = e.b /\ d0' = e.d0 /\ d1' = e.d1
           /\ w' = e.w /\ x' = e.x /\ s' = e.s
           /\ switches' = switches + e.sw
           /\ IF LoopBreaks(e.b, e.s)
              THEN /\ reg' = reg0
                   /\ pc' = "sel"
                   /\ UNCHANGED << i, writes, bits, error >>
              ELSE /\ bits' = Append(bits, e.b)
                   /\ IF BlockEnd(i)
                      THEN \E ok \in BOOLEAN :
                             /\ reg' = reg1
                             /\ writes' = SetTmcFields(writes,
                                    << <<MSLUT[(i \div WordBits) + 1], reg1>> >>,
                                    IF ok THEN 1 ELSE 0)
                             /\ IF ok
                                THEN /\ error' = error
                                     /\ pc' = IF i = TableLen - 1 THEN "sel" ELSE "loop"
                                     /\ i' = IF i = TableLen - 1 THEN i ELSE i + 1
                                ELSE /\ error' = "TransportFailure"
                                     /\ pc' = "raised"
                                     /\ i' = i
                      ELSE /\ reg' = ShiftReg(reg1)
                           /\ UNCHANGED << writes, error >>
                           /\ pc' = IF i = TableLen - 1 THEN "sel" ELSE "loop"
                           /\ i' = IF i = TableLen - 1 THEN i ELSE i + 1
    /\ UNCHANGED wave_table
    /\ UNCHANGED << planVars, genVars, cmdVars, moveVars >>

\* SelFields that writes the segment bounds before the family codes
SelFieldsXFirst ==
    << <<"x1", x[1]>>, <<"x2", x[2]>>, <<"x3", x[3]>>,
       <<"w0", w[1]>>, <<"w1", w[2]>>, <<"w2", w[3]>>, <<"w3", w[4]>> >>

\* lines 481-489: MSLUTSEL, written whichever way the loop ended
SelFields ==
    << <<"w0", w[1]>>, <<"w1", w[2]>>, <<"w2", w[3]>>, <<"w3", w[4]>>,
       <<"x1", x[1]>>, <<"x2", x[2]>>, <<"x3", x[3]>> >>

WriteSel ==
    /\ pc = "sel"
    /\ \E n \in 0..7 :
         /\ writes' = SetTmcFields(writes, SelFields, n)
         /\ IF n = 7
            THEN pc' = "done" /\ error' = error
            ELSE pc' = "raised" /\ error' = "TransportFailure"
    /\ UNCHANGED << wave_table, va, d0, d1, w, x, s, b, i, reg, bits, switches >>
    /\ UNCHANGED << planVars, genVars, cmdVars, moveVars >>

NextCompress == WriteStart \/ CompressLoop \/ WriteSel

SpecCompress == InitCompress /\ [][NextCompress]_vars

\* Tables whose first PrefixLen deltas are any of -2..4 and which are flat
\* afterwards: every family meets every delta, in and out of [-1,3].
PrefixLen == 3
PrefixDeltas == -2..4

PrefixTableOf(f) ==
    [k \in 1..TableLen |-> SumOver(f, {p \in 0..(PrefixLen - 1) : p <= k - 1})]

PrefixTables ==
    { t \in { PrefixTableOf(f) : f \in [0..(PrefixLen - 1) -> PrefixDeltas] } :
        InRange(t) }

InitEncode ==
    /\ wave_table \in PrefixTables
    /\ pc = "start"
    /\ error = "none"
    /\ CompressLocalsInit
    /\ PlanIdle /\ GenIdle /\ CmdIdle /\ MoveIdle

SpecEncode == InitEncode /\ [][NextCompress]_vars

\* _write_wave_table is one synchronous call: once entered, the interpreter
\* runs its statements one after the other until it returns or raises, so a
\* step that is possible is eventually taken.
SpecCompressFair == SpecCompress /\ WF_vars(NextCompress)

---------------------------------------------------------------------------
\* Properties of _write_wave_table

\* the loop ended on "if b < 0: break" or "if s > 3: break"
CompressFailed == pc \in {"sel", "done", "raised"} /\ LoopBreaks(b, s)

\* _write_wave_table returned after the loop ran through index 255
CompressCompleted == pc = "done" /\ ~LoopBreaks(b, s)

HasBadDelta(t) ==
    \E k \in 0..(TableLen - 1) : DeltaAt(t, k) < -1 \/ DeltaAt(t, k) > 3

\* the value of the last write to field f in the log
Written(log, f) ==
    LET ks == {k \in 1..Len(log) : log[k][1] = f}
    IN  log[CHOOSE k \in ks : \A q \in ks : q <= k][2]

\* C1: when the compression fails, no register write has been issued (none
\* of start_sin, start_sin90, mslut0..7, w0..w3, x1..x3), whatever the
\* index of the failure.
C1_NoWriteOnFailure == CompressFailed => writes = << >>

\* C2: a table whose encoding needs a fourth family switch never makes
\* _write_wave_table return normally: it fails with UnrepresentableCurve.
C2_FourthSwitchFails == pc = "done" => switches <= 3

\* C3: a table with a single-step delta outside [-1,3] ends the compression
\* in an UnrepresentableCurve error; it does not return normally.
C3_BadDeltaRaises == HasBadDelta(wave_table) => pc # "done"

\* Decoding of the written register image: segment of index k, and the
\* value after index k (starting from 0, adding d0 or d1 of the segment's
\* family, family code c meaning (c-1, c)).
SegmentOf(xs, k) ==
    IF k < xs[1] THEN 0 ELSE IF k < xs[2] THEN 1 ELSE IF k < xs[3] THEN 2 ELSE 3

DecodedDelta(log, k) ==
    LET ws == << Written(log, "w0"), Written(log, "w1"),
                 Written(log, "w2"), Written(log, "w3") >>
        xs == << Written(log, "x1"), Written(log, "x2"), Written(log, "x3") >>
        word == Written(log, MSLUT[(k \div WordBits) + 1])
    IN  (ws[SegmentOf(xs, k) + 1] - 1) + RegBit(word, k % WordBits)

RECURSIVE Decoded(_, _)
Decoded(log, k) ==
    IF k < 0 THEN 0 ELSE Decoded(log, k - 1) + DecodedDelta(log, k)

\* C4: round trip: when the compression completes without failure,
\* decoding the written words, w and x reproduces the table at every index.
C4_RoundTrip ==
    CompressCompleted =>
        \A k \in 0..(TableLen - 1) : Decoded(writes, k) = wave_table[k + 1]

\* C9: after a compression that completes without failure, bit (k mod 32)
\* of the word written as mslut(k div 32) is the class bit emitted for
\* index k, and every written word is below 2^32.
C9_BitPacking ==
    CompressCompleted =>
        /\ \A k \in 0..(TableLen - 1) :
             RegBit(Written(writes, MSLUT[(k \div WordBits) + 1]), k % WordBits)
                 = bits[k + 1]
        /\ \A n \in 1..8 :
             LET word == Written(writes, MSLUT[n])
             IN  word.hi >= 0 /\ word.hi < Half /\ word.lo >= 0 /\ word.lo < Half

\* C9 witness: a completed compression whose bits at indices 31 and 32 (top
\* bit of mslut0, lowest bit of mslut1) are 1 and whose bit at index 0 is 0
C9_Witness ==
    /\ CompressCompleted
    /\ bits[32] = 1 /\ bits[33] = 1 /\ bits[1] = 0
    /\ Written(writes, "mslut0") = [hi |-> HalfMsb, lo |-> 0]
    /\ Written(writes, "mslut1") = [hi |-> 0, lo |-> 1]

---------------------------------------------------------------------------
\* _goto_step (lines 634-709) and _perform_force_move_steps (lines 711-758)

Shr(v, k) == v \div Pow2(k)

\* "microsteps = 256 >> mres"  (line 561)
GetMicrostepResolution(mres) == Shr(256, mres)

\* the MRES field selects 256 (0) down to full step (8)
Resolutions == { GetMicrostepResolution(m) : m \in 0..8 }

Supported(res) == \E k \in 0..7 : res = Shr(256, k)

\* "for shift in range(8): if microstep_resolution == (256 >> shift): break"
\* (lines 658-661): the first matching shift; the loop variable is left at 7
\* when no shift matches
FindShift(res) ==
    IF Supported(res)
    THEN CHOOSE k \in 0..7 : res = Shr(256, k) /\ \A q \in 0..(k - 1) : res # Shr(256, q)
    ELSE 7

\* "mscnt = mscnt_reg & 0x3ff"  (line 655)
MaskCounter(raw) == raw % 1024

\* "cnt = 4 * (1 << (8 - shift))"  (line 664)
CycleLen(sh) == 4 * Pow2(8 - sh)

\* "dir = 0 if axis_inverted else 1"  (line 672)
BaseDir(inv) == IF inv THEN 0 ELSE 1

\* "dir ^= 1"
FlipDir(dd) == 1 - dd

\* HalfFlip that forgets to flip the direction
HalfFlipKeepsDir(p, cyc) ==
    IF p.steps > cyc \div 2
    THEN [dir |-> p.dir, steps |-> cyc - p.steps, flips |-> p.flips + 1]
    ELSE p

\* HalfFlip that also flips at exactly half a cycle
HalfFlipAtHalf(p, cyc) ==
    IF p.steps >= cyc \div 2
    THEN [dir |-> FlipDir(p.dir), steps |-> cyc - p.steps, flips |-> p.flips + 1]
    ELSE p

\* HalfFlip that leaves a negative step count (steps - cnt)
HalfFlipNegative(p, cyc) ==
    IF p.steps > cyc \div 2
    THEN [dir |-> FlipDir(p.dir), steps |-> p.steps - cyc, flips |-> p.flips + 1]
    ELSE p

\* "if steps > (cnt // 2): dir ^= 1; steps = cnt - steps"  (lines 679-681)
HalfFlip(p, cyc) ==
    IF p.steps > cyc \div 2
    THEN [dir |-> FlipDir(p.dir), steps |-> cyc - p.steps, flips |-> p.flips + 1]
    ELSE p

\* "if steps < 0: dir ^= 1; steps = -steps"  (lines 683-685)
NegFlip(p) ==
    IF p.steps < 0
    THEN [dir |-> FlipDir(p.dir), steps |-> -p.steps, flips |-> p.flips + 1]
    ELSE p

\* lines 669-688: the dir = 2 (auto-direction) plan
Plan(target, mscnt, sh, inv) ==
    NegFlip(HalfFlip([dir |-> BaseDir(inv),
                      steps |-> target - Shr(mscnt, sh),
                      flips |-> 0],
                     CycleLen(sh)))

\* MoveNeeded that never takes the early return
MoveAlways(n) == TRUE

\* "if cnt == 0: return" (lines 690-692) is not taken
MoveNeeded(n) == n # 0

\* PinAccess that is content with one of the two pins
PinAccessEither(sp, dp) == sp \/ dp

\* "if not self.step_pin or not self.dir_pin: return"  (lines 720-725)
PinAccess(sp, dp) == sp /\ dp

\* ActualDirection that writes the planned direction as it is
ActualDirectionRaw(dd, inv) == dd

\* _set_dir_pin_direct (lines 911-929): the level written to the dir pin
ActualDirection(dd, inv) == IF ~inv THEN dd ELSE 1 - dd

\* raw MSCNT register values read from the driver: every CounterStride-th
\* value, also above the 10 bits the mask keeps, and the largest counter
RawCounters == { c \in 0..2047 : c % CounterStride = 0 \/ c = 1023 }

InitPlan ==
    /\ mscnt_reg \in RawCounters
    /\ microstep_resolution \in Resolutions
    /\ target_step \in 0..(4 * microstep_resolution - 1)
    /\ axis_inverted \in BOOLEAN
    /\ step_pin \in BOOLEAN
    /\ dir_pin \in BOOLEAN
    /\ shift = 0 /\ cnt = 0 /\ dir = 2 /\ flips = 0
    /\ dir_pin_writes = << >> /\ step_pin_writes = 0
    /\ pc = "call"
    /\ error = "none"
    /\ wave_table = << >>
    /\ CompressLocalsInit /\ GenIdle /\ CmdIdle /\ MoveIdle

\* _goto_step(target_step, microstep_resolution), with the move it performs
GotoStep ==
    /\ pc = "call"
    /\ LET mscnt == MaskCounter(mscnt_reg)
           sh    == FindShift(microstep_resolution)
           p     == Plan(target_step, mscnt, sh, axis_inverted)
       IN  /\ shift' = sh
           /\ dir' = p.dir
           /\ cnt' = p.steps
           /\ flips' = p.flips
           /\ IF MoveNeeded(p.steps) /\ PinAccess(step_pin, dir_pin)
              THEN /\ dir_pin_writes' =
                         Append(dir_pin_writes, ActualDirection(p.dir, axis_inverted))
                   /\ step_pin_writes' = step_pin_writes + 2 * p.steps
              ELSE UNCHANGED << dir_pin_writes, step_pin_writes >>
    /\ pc' = "returned"
    /\ UNCHANGED << mscnt_reg, microstep_resolution, target_step, axis_inverted,
                    step_pin, dir_pin, error >>
    /\ UNCHANGED << compressVars, genVars, cmdVars, moveVars >>

NextPlan == GotoStep

SpecPlan == InitPlan /\ [][NextPlan]_vars

---------------------------------------------------------------------------
\* Properties of _goto_step

\* position of the driver in microsteps of the cycle, and the cycle length
Position == Shr(MaskCounter(mscnt_reg), FindShift(microstep_resolution))
Cycle == 4 * microstep_resolution

Min(m, n) == IF m <= n THEN m ELSE n

NoPinWrite == dir_pin_writes = << >> /\ step_pin_writes = 0

\* C5: for a supported resolution and a target in [0, 4*resolution-1] the
\* step count is the shorter way round the cycle, min(d, cycle - d) with
\* d = (target - position) mod cycle; so it never exceeds cycle/2.
C5_ShortestPath ==
    (pc = "returned" /\ Supported(microstep_resolution)) =>
        LET dist == (target_step - Position) % Cycle
        IN  cnt = Min(dist, Cycle - dist) /\ 2 * cnt <= Cycle

\* C6: for a supported resolution, moving cnt microsteps from the position,
\* upward when dir is the base direction and downward when it is flipped,
\* ends at the target modulo the cycle.
C6_PlanReachesTarget ==
    (pc = "returned" /\ Supported(microstep_resolution)) =>
        LET moved == IF dir = BaseDir(axis_inverted) THEN cnt ELSE -cnt
        IN  (Position + moved) % Cycle = target_step

\* C6 witness: a plan that took the half-cycle flip and moves downward
C6_Witness ==
    /\ pc = "returned" /\ Supported(microstep_resolution)
    /\ target_step - Position > Cycle \div 2
    /\ dir # BaseDir(axis_inverted) /\ cnt > 0

\* C7: with a resolution that is 256 >> shift for no shift in 0..7, the
\* planning call fails with InvalidResolution and writes no pin.
C7_InvalidResolutionFails ==
    (pc # "call" /\ ~Supported(microstep_resolution)) =>
        (pc = "raised" /\ error = "InvalidResolution" /\ NoPinWrite)

\* C8: when the target equals ((rawCounter & 0x3FF) >> shift), the plan has
\* zero steps and no direction-pin write and no step pulse is issued.
C8_NoopAtTarget ==
    (pc = "returned" /\ target_step = Shr(MaskCounter(mscnt_reg), shift)) =>
        (cnt = 0 /\ NoPinWrite)

\* C8 witness: a call at a non-zero target position with both pins present
C8_Witness ==
    /\ pc = "returned" /\ step_pin /\ dir_pin
    /\ target_step = Shr(MaskCounter(mscnt_reg), shift) /\ target_step > 0

---------------------------------------------------------------------------
\* _generate_constant_torque_wave (lines 324-360) and the quantizer of
\* _tmc2130_calc_constant_torque_value (lines 281-322).
\*
\* The theoretical value of lines 263-279 is a floating-point number computed
\* with sin, pow and sqrt; here it is an input: theo[k+1] is the theoretical
\* value at index k, a multiple of 1/Scale.  carry and
\* prev_theoretical_value are in the same unit.

\* Python's int(): truncation toward zero of num/den (den > 0)
TruncDiv(num, den) == IF num >= 0 THEN num \div den ELSE -((-num) \div den)

\* "candidate_value = int(adjusted_theoretical + 0.5)"  (line 284)
RoundCandidate(adjusted) == TruncDiv(2 * adjusted + Scale, 2 * Scale)

\* MinDelta without the clamp to [-1, 2]
MinDeltaUnclamped(slope) == slope \div Scale

\* "min_delta = int(math.floor(slope))" clamped to [-1, 2]  (lines 293-300)
MinDelta(slope) ==
    LET fl == slope \div Scale
    IN  IF fl < -1 THEN -1 ELSE IF fl > 2 THEN 2 ELSE fl

\* LimitDelta that always takes the lower delta
LimitDeltaFloor(candidate, prev, min_delta) == prev + min_delta

\* lines 303-307: constrain the delta to [min_delta, min_delta + 1]
LimitDelta(candidate, prev, min_delta) ==
    IF candidate - prev < min_delta THEN prev + min_delta
    ELSE IF candidate - prev > min_delta + 1 THEN prev + min_delta + 1
    ELSE candidate

\* ClampAmplitude without the upper limit
ClampLowOnly(candidate) == IF candidate < SIN0 THEN SIN0 ELSE candidate

\* lines 310-313: final amplitude clamping
ClampAmplitude(candidate) ==
    IF candidate < SIN0 THEN SIN0
    ELSE IF candidate > AMPLITUDE THEN AMPLITUDE
    ELSE candidate

\* lines 281-322 for theoretical value tv: the entry and the new carry
CalcValue(tv, prev, cy, prev_tv) ==
    LET candidate == RoundCandidate(tv - cy)
        min_delta == MinDelta(tv - prev_tv)
        value     == ClampAmplitude(LimitDelta(candidate, prev, min_delta))
    IN  [value |-> value, carry |-> value * Scale - tv]

\* Theoretical curves: a ramp of constant slope with level breaks at the
\* indices in GenPts, all in units of 1/Scale.
GenPts == {0, 1, 2, 128, 254}
Ramps == {-(Scale \div 2), 0, Scale + Scale \div 2, 2 * Scale + 1}
Breaks == {-3 * Scale, -(Scale \div 2), Scale \div 2, 2 * Scale + 1, 300 * Scale}

BreakMaps ==
    { f \in [GenPts -> Breaks \cup {0}] :
        Cardinality({p \in GenPts : f[p] # 0}) <= MaxBreaks }

CurveOf(f, ramp) ==
    [k \in 1..TableLen |-> k * ramp + SumOver(f, {p \in GenPts : p <= k - 1})]

Curves == { CurveOf(f, r) : f \in BreakMaps, r \in Ramps }

InitGen ==
    /\ theo \in Curves
    /\ carry = 0
    /\ prev_theoretical_value = 0
    /\ wave_table = << >>
    /\ pc = "gen"
    /\ error = "none"
    /\ CompressLocalsInit /\ PlanIdle /\ CmdIdle /\ MoveIdle

\* lines 354-358: one iteration of "for i in range(256)"
GenStep ==
    /\ pc = "gen"
    /\ LET r == CalcValue(theo[i + 1], va, carry, prev_theoretical_value)
       IN  /\ wave_table' = Append(wave_table, r.value)
           /\ va' = r.value
           /\ carry' = r.carry
           /\ prev_theoretical_value' = theo[i + 1]
    /\ i' = i + 1
    /\ pc' = IF i = TableLen - 1 THEN "generated" ELSE "gen"
    /\ UNCHANGED << theo, error, d0, d1, w, x, s, b, reg, writes, bits, switches >>
    /\ UNCHANGED << planVars, cmdVars, moveVars >>

NextGen == GenStep

SpecGen == InitGen /\ [][NextGen]_vars

---------------------------------------------------------------------------
\* Properties of the generator

\* C10: whatever the theoretical values are, the generated table has
\* exactly 256 entries and every entry lies in [0, 248].
C10_TableRange ==
    /\ \A k \in 1..Len(wave_table) :
         wave_table[k] >= 0 /\ wave_table[k] <= 248
    /\ Len(wave_table) <= 256
    /\ pc = "generated" => Len(wave_table) = 256

\* C10 witness: a generated table that touches both limits although the
\* theoretical curve leaves [0, 248] on both sides
C10_Witness ==
    /\ pc = "generated"
    /\ \E k \in 1..TableLen : theo[k] > 248 * Scale /\ wave_table[k] = 248
    /\ \E k \in 1..TableLen : theo[k] < 0 /\ wave_table[k] = 0

---------------------------------------------------------------------------
\* The TMC_SET_WAVE commands (lines 83-90, 512-527), the initial
\* configuration (lines 216-250) and the TMC_SET_STEP commands (lines 92-99,
\* 529-566)

\* the offsets of the TMC_SET_WAVE commands used here, out of 0, 10, ..., 200
WaveOffsets == {0, 50, 100, 200}

\* FactorOf that ignores the offset
FactorOfFixed(offset) == MIN_LINEARITY_FACTOR

\* "self.linearity_factor = 1000 + factor_offset"  (line 516)
FactorOf(offset) == MIN_LINEARITY_FACTOR + offset

Factors == { FactorOf(k) : k \in WaveOffsets }

\* theoretical_value of lines 263-279 for i = 0..255, as the code computes it
\* for linearity factors 1000, 1050, 1100 and 1200, rounded to the nearest
\* multiple of 1/Scale:
\*   i < 128:  AMPLITUDE * pow(sin(pi*i/512), fac) * tcorr + SIN0
\*   i >= 128: sqrt(AMPLITUDE^2 - theoretical(255 - i)^2)
\* with fac = fac1000/1000 and tcorr of lines 345-348.

Theoretical1000 ==
  <<
          0,    6252,   12504,   18755,   25006,   31256,   37504,   43751,
      49997,   56241,   62482,   68721,   74958,   81192,   87422,   93650,
      99873,  106094,  112310,  118522,  124729,  130932,  137130,  143322,
     149509,  155691,  161867,  168036,  174200,  180356,  186506,  192649,
     198785,  204913,  211034,  217146,  223251,  229347,  235434,  241513,
     247582,  253642,  259693,  265733,  271764,  277784,  283795,  289794,
     295782,  301760,  307726,  313680,  319623,  325553,  331471,  337377,
     343270,  349150,  355017,  360871,  366711,  372537,  378350,  384147,
     389931,  395700,  401454,  407193,  412916,  418624,  424316,  429992,
     435652,  441296,  446923,  452533,  458126,  463702,  469261,  474802,
     480324,  485829,  491316,  496784,  502233,  507664,  513075,  518467,
     523839,  529192,  534525,  539837,  545130,  550402,  555653,  560883,
     566092,  571280,  576446,  581591,  586713,  591814,  596892,  601948,
     606981,  611991,  616979,  621943,  626883,  631800,  636694,  641563,
     646408,  651229,  656025,  660797,  665543,  670265,  674961,  679632,
     684278,  688897,  693491,  698058,  702600,  707114,  711603,  716064,
     720498,  724905,  729284,  733635,  737957,  742251,  746516,  750753,
     754961,  759140,  763290,  767410,  771501,  775562,  779594,  783596,
     787568,  791509,  795421,  799302,  803152,  806972,  810760,  814518,
     818245,  821940,  825604,  829237,  832837,  836406,  839944,  843449,
     846922,  850362,  853770,  857146,  860489,  863799,  867077,  870321,
     873532,  876710,  879854,  882965,  886043,  889086,  892096,  895072,
     898014,  900922,  903795,  906634,  909439,  912209,  914945,  917645,
     920311,  922942,  925538,  928098,  930623,  933113,  935568,  937987,
     940370,  942718,  945030,  947306,  949546,  951750,  953918,  956050,
     958145,  960204,  962227,  964213,  966163,  968076,  969952,  971791,
     973594,  975360,  977088,  978780,  980434,  982052,  983632,  985175,
     986680,  988148,  989579,  990972,  992327,  993645,  994925,  996168,
     997373,  998540,  999669, 1000760, 1001813, 1002829, 1003806, 1004745,
    1005646, 1006510, 1007334, 1008121, 1008870, 1009580, 1010252, 1010886,
    1011482, 1012039, 1012558, 1013039, 1013481, 1013885, 1014250, 1014577,
    1014865, 1015115, 1015327, 1015500, 1015635, 1015731, 1015789, 1015808
  >>

Theoretical1050 ==
  <<
          0,    4932,   10211,   15630,   21141,   26722,   32357,   38039,
      43760,   49515,   55300,   61113,   66949,   72807,   78684,   84580,
      90492,   96418,  102358,  108311,  114275,  120249,  126233,  132225,
     138225,  144232,  150245,  156264,  162287,  168315,  174347,  180381,
     186418,  192457,  198497,  204539,  210580,  216622,  222663,  228703,
     234742,  240778,  246813,  252844,  258873,  264898,  270919,  276936,
     282948,  288954,  294956,  300951,  306941,  312923,  318899,  324868,
     330829,  336782,  342726,  348662,  354589,  360507,  366415,  372313,
     378201,  384078,  389944,  395799,  401643,  407475,  413294,  419101,
     424896,  430677,  436445,  442200,  447940,  453666,  459378,  465075,
     470757,  476423,  482074,  487709,  493328,  498930,  504516,  510085,
     515636,  521170,  526686,  532183,  537663,  543124,  548566,  553989,
     559392,  564776,  570140,  575484,  580808,  586111,  591393,  596653,
     601893,  607111,  612306,  617480,  622632,  627761,  632867,  637950,
     643009,  648045,  653058,  658046,  663010,  667950,  672865,  677755,
     682620,  687460,  692274,  697062,  701824,  706561,  711270,  715953,
     720609,  725231,  729821,  734376,  738898,  743386,  747840,  752260,
     756647,  760998,  765316,  769599,  773848,  778063,  782242,  786387,
     790497,  794573,  798613,  802618,  806588,  810522,  814422,  818285,
     822114,  825906,  829663,  833384,  837069,  840717,  844330,  847907,
     851447,  854951,  858418,  861849,  865244,  868601,  871922,  875206,
     878453,  881663,  884836,  887971,  891070,  894131,  897155,  900141,
     903090,  906001,  908875,  911710,  914508,  917269,  919991,  922675,
     925322,  927930,  930500,  933032,  935526,  937982,  940399,  942778,
     945119,  947421,  949685,  951910,  954097,  956245,  958355,  960426,
     962459,  964453,  966408,  968325,  970203,  972043,  973844,  975606,
     977329,  979014,  980660,  982268,  983837,  985368,  986860,  988313,
     989728,  991104,  992442,  993741,  995002,  996225,  997410,  998556,
     999664, 1000734, 1001766, 1002761, 1003717, 1004635, 1005516, 1006360,
    1007166, 1007934, 1008665, 1009360, 1010017, 1010638, 1011222, 1011769,
    1012281, 1012756, 1013195, 1013599, 1013968, 1014302, 1014600, 1014865,
    1015096, 1015293, 1015456, 1015588, 1015688, 1015757, 1015796, 1015808
  >>

Theoretical1100 ==
  <<
          0,    3890,    8339,   13026,   17874,   22845,   27916,   33072,
      38301,   43594,   48944,   54346,   59796,   65288,   70820,   76388,
      81991,   87625,   93289,   98980,  104697,  110438,  116202,  121987,
     127793,  133617,  139458,  145316,  151190,  157078,  162980,  168894,
     174821,  180758,  186706,  192663,  198629,  204603,  210585,  216573,
     222567,  228567,  234572,  240581,  246593,  252609,  258628,  264648,
     270670,  276693,  282716,  288739,  294762,  300784,  306804,  312822,
     318838,  324851,  330860,  336866,  342868,  348865,  354857,  360843,
     366823,  372797,  378765,  384725,  390677,  396622,  402558,  408486,
     414405,  420314,  426213,  432102,  437980,  443847,  449703,  455548,
     461380,  467200,  473007,  478800,  484581,  490347,  496100,  501838,
     507561,  513269,  518961,  524638,  530298,  535942,  541570,  547180,
     552772,  558347,  563904,  569442,  574962,  580462,  585944,  591405,
     596847,  602269,  607670,  613050,  618409,  623747,  629063,  634357,
     639628,  644878,  650104,  655307,  660487,  665643,  670775,  675883,
     680967,  686025,  691059,  696067,  701050,  706007,  710938,  715842,
     720719,  725557,  730356,  735115,  739835,  744516,  749156,  753757,
     758319,  762841,  767323,  771766,  776169,  780532,  784856,  789140,
     793384,  797588,  801752,  805876,  809960,  814005,  818009,  821973,
     825897,  829781,  833624,  837428,  841191,  844913,  848596,  852238,
     855839,  859400,  862920,  866400,  869840,  873238,  876596,  879914,
     883190,  886426,  889621,  892775,  895888,  898961,  901993,  904983,
     907933,  910842,  913710,  916537,  919323,  922068,  924772,  927434,
     930056,  932637,  935177,  937676,  940134,  942551,  944928,  947263,
     949557,  951810,  954023,  956194,  958325,  960415,  962464,  964473,
     966441,  968368,  970255,  972101,  973907,  975673,  977398,  979083,
     980728,  982333,  983898,  985423,  986908,  988353,  989759,  991125,
     992453,  993740,  994989,  996199,  997370,  998502,  999596, 1000652,
    1001669, 1002648, 1003590, 1004494, 1005360, 1006190, 1006982, 1007738,
    1008457, 1009140, 1009787, 1010398, 1010974, 1011515, 1012022, 1012494,
    1012932, 1013336, 1013708, 1014047, 1014353, 1014628, 1014872, 1015086,
    1015269, 1015424, 1015551, 1015651, 1015724, 1015774, 1015801, 1015808
  >>

Theoretical1200 ==
  <<
          0,    2421,    5562,    9047,   12776,   16698,   20780,   25000,
      29341,   33791,   38340,   42978,   47700,   52499,   57370,   62309,
      67310,   72372,   77489,   82660,   87882,   93152,   98469,  103829,
     109230,  114672,  120152,  125668,  131219,  136804,  142421,  148068,
     153745,  159450,  165182,  170940,  176723,  182529,  188358,  194209,
     200080,  205971,  211881,  217809,  223754,  229715,  235692,  241684,
     247689,  253708,  259739,  265782,  271835,  277899,  283972,  290054,
     296145,  302243,  308347,  314458,  320575,  326696,  332822,  338952,
     345085,  351220,  357358,  363497,  369637,  375777,  381916,  388055,
     394193,  400329,  406462,  412593,  418719,  424842,  430961,  437074,
     443182,  449284,  455380,  461468,  467549,  473622,  479687,  485742,
     491788,  497825,  503851,  509866,  515870,  521863,  527843,  533811,
     539766,  545707,  551634,  557547,  563445,  569328,  575196,  581047,
     586882,  592700,  598501,  604284,  610049,  615796,  621523,  627231,
     632920,  638588,  644236,  649863,  655469,  661053,  666615,  672155,
     677672,  683165,  688636,  694082,  699504,  704901,  710274,  715621,
     720939,  726207,  731423,  736587,  741698,  746758,  751765,  756721,
     761626,  766479,  771281,  776032,  780733,  785382,  789982,  794530,
     799029,  803477,  807875,  812223,  816521,  820769,  824968,  829117,
     833217,  837267,  841268,  845219,  849121,  852975,  856779,  860534,
     864241,  867898,  871507,  875068,  878580,  882043,  885458,  888825,
     892144,  895414,  898637,  901811,  904938,  908017,  911049,  914033,
     916969,  919858,  922700,  925494,  928242,  930943,  933597,  936204,
     938765,  941279,  943747,  946168,  948544,  950874,  953158,  955396,
     957589,  959737,  961840,  963897,  965910,  967878,  969802,  971681,
     973516,  975308,  977056,  978760,  980421,  982040,  983615,  985148,
     986638,  988087,  989493,  990858,  992182,  993465,  994707,  995909,
     997070,  998192,  999274, 1000317, 1001322, 1002288, 1003216, 1004106,
    1004959, 1005774, 1006554, 1007297, 1008005, 1008677, 1009315, 1009918,
    1010488, 1011024, 1011528, 1011999, 1012439, 1012848, 1013227, 1013575,
    1013895, 1014187, 1014450, 1014687, 1014898, 1015084, 1015246, 1015384,
    1015500, 1015595, 1015671, 1015728, 1015768, 1015793, 1015805, 1015808
  >>

TheoreticalValues(fac1000) ==
    CASE fac1000 = 1000 -> Theoretical1000
      [] fac1000 = 1050 -> Theoretical1050
      [] fac1000 = 1100 -> Theoretical1100
      [] fac1000 = 1200 -> Theoretical1200

\* GenLocals that keeps what the previous call left
GenLocalsStale ==
    [carry |-> carry, prev_theoretical_value |-> prev_theoretical_value, va |-> va]

\* "carry = [0.0]", "prev_theoretical_value = [0.0]", "va = 0"
\* (lines 338-339, 352): locals, created by each call
GenLocals ==
    [carry |-> 0, prev_theoretical_value |-> 0, va |-> 0]

\* what the value _get_tmc_field('mres') returns when the field cannot be read
NoMres == -1

\* _get_microstep_resolution (lines 550-566): 256 when the field is not read
MicrostepResolution(m) ==
    IF m = NoMres THEN 256 ELSE GetMicrostepResolution(m)

RECURSIVE BitAnd(_, _)
BitAnd(m, n) ==
    IF m = 0 \/ n = 0 THEN 0
    ELSE (m % 2) * (n % 2) + 2 * BitAnd(m \div 2, n \div 2)

\* MaxStep without the "- 1"
MaxStepNoBorrow(res) == 4 * res

\* "max_step = 4 * microstep_resolution - 1"  (line 536)
MaxStep(res) == 4 * res - 1

\* "masked_step = target_step & max_step"  (line 537)
MaskedStep(pos, res) == BitAnd(pos, MaxStep(res))

\* the positions of the TMC_SET_STEP commands: range(0, 1051, 2)  (line 93)
StepPositions == { p \in 0..1050 : p % 2 = 0 }

\* what _get_tmc_field('mres') can return
MresReads == (0..8) \cup {NoMres}

\* Response that always reports success
ResponseAlwaysOk(p) == "ok"

\* the try/except of the handlers (lines 514-527, 531-548, 218-226): an
\* exception that leaves the handler's body is reported as a failure
Response(p) == IF p = "raised" THEN "failed" ELSE "ok"

\* the locals and the logs of the previous handler are gone
NoPlan ==
    /\ mscnt_reg' = 0 /\ microstep_resolution' = 256 /\ target_step' = 0
    /\ shift' = 0 /\ cnt' = 0 /\ dir' = 2 /\ flips' = 0
    /\ dir_pin_writes' = << >> /\ step_pin_writes' = 0
    /\ mres_field' = 0 /\ step_pos' = 0
    /\ UNCHANGED << axis_inverted, step_pin, dir_pin, moveVars >>

\* _apply_linearity_correction (lines 228-250) down to the loop of
\* _generate_constant_torque_wave (lines 336-352)
Regenerate(fac1000) ==
    /\ theo' = TheoreticalValues(fac1000)
    /\ carry' = GenLocals.carry
    /\ prev_theoretical_value' = GenLocals.prev_theoretical_value
    /\ va' = GenLocals.va
    /\ wave_table' = << >> /\ i' = 0
    /\ d0' = 0 /\ d1' = 1 /\ w' = << 1, 1, 1, 1 >> /\ x' = << 255, 255, 255 >>
    /\ s' = 0 /\ b' = 0 /\ reg' = RegZero
    /\ writes' = << >> /\ bits' = << >> /\ switches' = 0
    /\ error' = "none"
    /\ pc' = "gen"

InitWave ==
    /\ pc = "constructed"
    /\ error = "none"
    /\ wave_table = << >>
    /\ CompressLocalsInit /\ GenIdle /\ MoveIdle
    /\ cmd = "none" /\ factor_offset = 0
    /\ linearity_factor \in Factors
    /\ factor_before = linearity_factor
    /\ response = "none"
    /\ first_table = [f \in Factors |-> << >>]
    /\ mres_field = 0 /\ step_pos = 0
    /\ mscnt_reg = 0 /\ microstep_resolution = 256 /\ target_step = 0
    /\ axis_inverted = FALSE /\ step_pin = TRUE /\ dir_pin = TRUE
    /\ shift = 0 /\ cnt = 0 /\ dir = 2 /\ flips = 0
    /\ dir_pin_writes = << >> /\ step_pin_writes = 0

\* _apply_initial_config (lines 216-226), run once when the printer is ready
ApplyInitialConfig ==
    /\ pc = "constructed"
    /\ cmd' = "init"
    /\ factor_before' = linearity_factor
    /\ response' = "none"
    /\ Regenerate(linearity_factor)
    /\ NoPlan
    /\ UNCHANGED << factor_offset, linearity_factor, first_table >>

\* _cmd_set_wave_with_offset (lines 512-519): the factor is stored, then the
\* table is regenerated
CmdSetWave ==
    /\ pc = "idle"
    /\ \E k \in WaveOffsets :
         /\ factor_offset' = k
         /\ linearity_factor' = FactorOf(k)
         /\ Regenerate(FactorOf(k))
    /\ cmd' = "set_wave"
    /\ factor_before' = linearity_factor
    /\ response' = "none"
    /\ NoPlan
    /\ UNCHANGED first_table

\* "self._write_wave_table(wave_table)"  (line 244) down to the locals of
\* lines 385-395
StartWrite ==
    /\ pc = "generated"
    /\ pc' = "start"
    /\ va' = 0 /\ d0' = 0 /\ d1' = 1
    /\ w' = << 1, 1, 1, 1 >> /\ x' = << 255, 255, 255 >>
    /\ s' = 0 /\ b' = 0 /\ i' = 0 /\ reg' = RegZero
    /\ first_table' =
         IF first_table[linearity_factor] = << >>
         THEN [first_table EXCEPT ![linearity_factor] = wave_table]
         ELSE first_table
    /\ UNCHANGED << wave_table, writes, bits, switches, error >>
    /\ UNCHANGED << planVars, genVars, moveVars >>
    /\ UNCHANGED << cmd, factor_offset, linearity_factor, factor_before,
                    response, mres_field, step_pos >>

\* a TMC_SET_STEP command arrives: positions, mres reads and MSCNT reads
\* from the given sets
ReceiveSetStep(positions, reads, counters) ==
    /\ pc = "idle"
    /\ step_pos' \in positions
    /\ mres_field' \in reads
    /\ mscnt_reg' \in counters
    /\ cmd' = "set_step"
    /\ factor_before' = linearity_factor
    /\ response' = "none"
    /\ pc' = "set_step"
    /\ microstep_resolution' = 256 /\ target_step' = 0
    /\ shift' = 0 /\ cnt' = 0 /\ dir' = 2 /\ flips' = 0
    /\ dir_pin_writes' = << >> /\ step_pin_writes' = 0
    /\ wave_table' = << >> /\ va' = 0 /\ i' = 0
    /\ d0' = 0 /\ d1' = 1 /\ w' = << 1, 1, 1, 1 >> /\ x' = << 255, 255, 255 >>
    /\ s' = 0 /\ b' = 0 /\ reg' = RegZero
    /\ writes' = << >> /\ bits' = << >> /\ switches' = 0
    /\ theo' = << >> /\ carry' = 0 /\ prev_theoretical_value' = 0
    /\ error' = "none"
    /\ UNCHANGED << axis_inverted, step_pin, dir_pin, moveVars >>
    /\ UNCHANGED << factor_offset, linearity_factor, first_table >>

\* _cmd_set_step_with_position (lines 529-540) down to the call of _goto_step
SetStep ==
    /\ pc = "set_step"
    /\ LET res == MicrostepResolution(mres_field)
       IN  /\ microstep_resolution' = res
           /\ target_step' = MaskedStep(step_pos, res)
    /\ pc' = "call"
    /\ UNCHANGED << mscnt_reg, axis_inverted, step_pin, dir_pin, shift, cnt, dir,
                    flips, dir_pin_writes, step_pin_writes, error >>
    /\ UNCHANGED << compressVars, genVars, cmdVars, moveVars >>

\* the handler answers (respond_info, or the log of _apply_initial_config)
Respond ==
    /\ pc \in {"done", "raised", "returned"}
    /\ response' = Response(pc)
    /\ pc' = "idle"
    /\ UNCHANGED << compressVars, error, planVars, genVars, moveVars >>
    /\ UNCHANGED << cmd, factor_offset, linearity_factor, factor_before,
                    first_table, mres_field, step_pos >>

\* the TMC_SET_STEP commands that arrive between TMC_SET_WAVE commands
FewPositions == {0, 1050}
FewReads == {0, NoMres}
FewCounters == {0, 930}

NextWave ==
    \/ ApplyInitialConfig
    \/ CmdSetWave
    \/ GenStep
    \/ StartWrite
    \/ WriteStart
    \/ CompressLoop
    \/ WriteSel
    \/ ReceiveSetStep(FewPositions, FewReads, FewCounters)
    \/ SetStep
    \/ GotoStep
    \/ Respond

SpecWave == InitWave /\ [][NextWave]_vars

\* A TMC_SET_STEP command has arrived (every registered position, every
\* value of the mres field or none, every MSCNT read of RawCounters)
InitStep ==
    /\ pc = "set_step"
    /\ error = "none"
    /\ wave_table = << >>
    /\ CompressLocalsInit /\ GenIdle /\ MoveIdle
    /\ cmd = "set_step" /\ factor_offset = 0
    /\ linearity_factor = MIN_LINEARITY_FACTOR
    /\ factor_before = linearity_factor
    /\ response = "none"
    /\ first_table = << >>
    /\ step_pos \in StepPositions
    /\ mres_field \in MresReads
    /\ mscnt_reg \in RawCounters
    /\ microstep_resolution = 256 /\ target_step = 0
    /\ axis_inverted \in BOOLEAN
    /\ step_pin \in BOOLEAN /\ dir_pin \in BOOLEAN
    /\ shift = 0 /\ cnt = 0 /\ dir = 2 /\ flips = 0
    /\ dir_pin_writes = << >> /\ step_pin_writes = 0

NextStep == SetStep \/ GotoStep \/ Respond

SpecStep == InitStep /\ [][NextStep]_vars

---------------------------------------------------------------------------
\* Properties of the regeneration

\* C11: the generation keeps no state across calls: carry, previous
\* theoretical value and previous quantized value restart at 0 on each call,
\* and a regeneration with a factor that was used before, whatever commands
\* came in between, produces the same 256-entry table as the first time.
C11_Deterministic ==
    /\ (pc = "gen" /\ i = 0) =>
           (carry = 0 /\ prev_theoretical_value = 0 /\ va = 0)
    /\ (pc = "generated" /\ first_table # << >>) =>
           /\ Len(wave_table) = TableLen
           /\ first_table[linearity_factor] # << >> =>
                  wave_table = first_table[linearity_factor]

\* C11 witness: a factor is regenerated by a set-wave command after another
\* factor was in use, and the table equals the one first generated for it
C11_Witness ==
    /\ pc = "generated" /\ cmd = "set_wave"
    /\ factor_before # linearity_factor
    /\ first_table[linearity_factor] = wave_table

AllFields ==
    {"start_sin", "start_sin90", "w0", "w1", "w2", "w3", "x1", "x2", "x3"}
        \cup { MSLUT[n] : n \in 1..8 }

\* C12: compressing the table generated for factor 1.0 succeeds: no delta is
\* out of range, no more than three switches are needed, the loop does not
\* break, and the eight mslut words and all selector fields are written.
C12_FactorOneCompresses ==
    (cmd \in {"init", "set_wave"} /\ linearity_factor = 1000) =>
        /\ pc \in {"generated", "start", "loop", "sel", "done"} =>
               ~HasBadDelta(wave_table)
        /\ pc \in {"loop", "sel", "done"} => switches <= 3
        /\ pc \in {"sel", "done"} =>
               (~LoopBreaks(b, s) /\ Len(bits) = TableLen)
        /\ pc = "done" =>
               /\ error = "none"
               /\ \A f \in AllFields : \E k \in 1..Len(writes) : writes[k][1] = f

\* C12 witness: the table for factor 1.0 is written with a switch to the
\* family (1, 2) at index 1 and back to (0, 1) further on
C12_Witness ==
    /\ pc = "done" /\ linearity_factor = 1000
    /\ Written(writes, "w1") = 2 /\ Written(writes, "x1") = 1
    /\ Written(writes, "w2") = 1 /\ Written(writes, "x2") > 1
    /\ switches = 2

\* some pair of reals (p, q) with p*p + q*q = AMPLITUDE^2 lies within tol of
\* (m, n) in each coordinate, for m, n >= 0
MirrorWithin(m, n, tol) ==
    LET ml == IF m > tol THEN m - tol ELSE 0
        nl == IF n > tol THEN n - tol ELSE 0
    IN  /\ ml * ml + nl * nl <= AMPLITUDE * AMPLITUDE
        /\ AMPLITUDE * AMPLITUDE <= (m + tol) * (m + tol) + (n + tol) * (n + tol)

\* C13: for the factors 1.00, 1.05, 1.10 and 1.20 and every index k in
\* 128..255, the entries at k and at 255 - k are within 2 each of a pair
\* whose squares sum to 248^2.
C13_Mirror ==
    (pc = "generated" /\ linearity_factor \in {1000, 1050, 1100, 1200}) =>
        \A k \in 128..255 :
            MirrorWithin(wave_table[k + 1], wave_table[255 - k + 1], 2)

\* C13 witness: a table generated for factor 1.20 with a pair whose squares
\* do not sum to 248^2 exactly
C13_Witness ==
    /\ pc = "generated" /\ linearity_factor = 1200
    /\ \E k \in 128..255 :
         wave_table[k + 1] * wave_table[k + 1]
           + wave_table[255 - k + 1] * wave_table[255 - k + 1] # 248 * 248

---------------------------------------------------------------------------
\* Properties of the command handlers

\* C15: when a register write fails during a regeneration the operation
\* stops there: the next thing that happens is the failure report, and no
\* register write is issued after the failing one (it is not retried).
C15_WriteFailureStops ==
    [][ pc = "raised" =>
            (pc' = "idle" /\ response' = "failed" /\ writes' = writes) ]_vars

\* C15 witness: a set-wave command has reported failure after the writes of
\* start_sin, start_sin90 and mslut0..mslut2 went through and mslut3 failed
C15_Witness ==
    /\ pc = "idle" /\ cmd = "set_wave" /\ response = "failed"
    /\ error = "TransportFailure"
    /\ Len(writes) = 5 /\ writes[5][1] = "mslut2"

\* C16: when the mres field cannot be read, the positioning command aborts
\* with an error and writes no pin; it does not go on to plan a move with a
\* substituted resolution.
C16_NoMresAborts ==
    (cmd = "set_step" /\ mres_field = NoMres) =>
        (pc \notin {"call", "returned"} /\ NoPinWrite /\ response # "ok")

\* C17: a set-wave command whose regeneration fails leaves the stored
\* linearity factor equal to its value before the command.
C17_FailedSetWaveKeepsFactor ==
    (cmd = "set_wave" /\ response = "failed") =>
        linearity_factor = factor_before

\* C18: starting from a configured factor in [1000, 1200], through any
\* sequence of set-wave commands the stored factor stays in [1000, 1200],
\* and from a set-wave command with offset k on it equals 1000 + k.
C18_FactorRange ==
    /\ linearity_factor >= MIN_LINEARITY_FACTOR
    /\ linearity_factor <= MAX_LINEARITY_FACTOR
    /\ cmd = "set_wave" => linearity_factor = 1000 + factor_offset

\* C18 witness: a set-wave command with offset 200 has run after the factor
\* was 1050
C18_Witness ==
    /\ pc = "idle" /\ cmd = "set_wave" /\ response = "ok"
    /\ factor_offset = 200 /\ factor_before = 1050 /\ linearity_factor = 1200

\* C19: for every set-step position and every resolution 256 >> mres, the
\* target handed to _goto_step is the position masked with 4*resolution - 1,
\* that is the position modulo 4*resolution, and lies in [0, 4*resolution-1].
C19_MaskedTarget ==
    (cmd = "set_step" /\ pc \in {"call", "returned", "idle"}) =>
        /\ mres_field # NoMres =>
               microstep_resolution = GetMicrostepResolution(mres_field)
        /\ target_step = step_pos % (4 * microstep_resolution)
        /\ target_step >= 0
        /\ target_step <= 4 * microstep_resolution - 1

\* C19 witness: position 1050 at resolution 4 is handed over as 10
C19_Witness ==
    /\ cmd = "set_step" /\ pc = "call"
    /\ step_pos = 1050 /\ mres_field = 6 /\ microstep_resolution = 4
    /\ target_step = 10

---------------------------------------------------------------------------
\* _perform_force_move_steps (lines 711-758) pulse by pulse, after the plan
\* of _goto_step.  Times are in microseconds.

\* "print_time += 0.000001" after the direction change  (line 733)
DirDelay == 1

\* "pulse_width = 0.000001"  (line 952)
PulseWidth == 1

\* "step_delay = 1000" microseconds  (lines 736-737)
StepDelay == 1000

\* NextPulseTime that leaves only the pulse width between two pulses
NextPulseTimeNoGap(t) == t + PulseWidth

\* "print_time += step_interval"  (line 742)
NextPulseTime(t) == t + StepDelay

\* LoopDone that leaves the loop one pulse early
LoopDoneOneShort(done, steps) == done + 1 >= steps

\* "for step in range(steps)": the loop is left after pulse number steps
\* (line 739)
LoopDone(done, steps) == done = steps

\* "active_level = 0 if step_inverted else 1"  (lines 947-948)
ActiveLevel(inv) == IF inv THEN 0 ELSE 1
InactiveLevel(inv) == IF inv THEN 1 ELSE 0

\* the pulse-by-pulse runs use the resolutions of mres 8 - MaxMoveBits .. 8
MaxMoveBits == 3
MoveResolutions ==
    { GetMicrostepResolution(m) : m \in (8 - MaxMoveBits)..8 }

\* what toolhead.get_last_move_time() returns (line 729)
LastMoveTimes == {0, 7}

InitMove ==
    /\ mscnt_reg \in RawCounters
    /\ microstep_resolution \in MoveResolutions
    /\ target_step \in 0..(4 * microstep_resolution - 1)
    /\ axis_inverted \in BOOLEAN
    /\ step_pin \in BOOLEAN
    /\ dir_pin \in BOOLEAN
    /\ step_inverted \in BOOLEAN
    /\ print_time \in LastMoveTimes
    /\ step = 0 /\ pin_log = << >>
    /\ shift = 0 /\ cnt = 0 /\ dir = 2 /\ flips = 0
    /\ dir_pin_writes = << >> /\ step_pin_writes = 0
    /\ pc = "call"
    /\ error = "none"
    /\ wave_table = << >>
    /\ CompressLocalsInit /\ GenIdle /\ CmdIdle

\* _goto_step down to the call of _perform_force_move_steps and the pin
\* check there (lines 646-692, 719-730)
PlanMove ==
    /\ pc = "call"
    /\ LET sh == FindShift(microstep_resolution)
           p  == Plan(target_step, MaskCounter(mscnt_reg), sh, axis_inverted)
       IN  /\ shift' = sh
           /\ dir' = p.dir
           /\ cnt' = p.steps
           /\ flips' = p.flips
           /\ pc' = IF MoveNeeded(p.steps) /\ PinAccess(step_pin, dir_pin)
                    THEN "dir" ELSE "returned"
    /\ UNCHANGED << mscnt_reg, microstep_resolution, target_step, axis_inverted,
                    step_pin, dir_pin, dir_pin_writes, step_pin_writes, error >>
    /\ UNCHANGED << compressVars, genVars, cmdVars, moveVars >>

\* "self._set_dir_pin_direct(direction, print_time)" and the delay after it
\* (lines 732-733, 911-929)
SetDirPin ==
    /\ pc = "dir"
    /\ LET level == ActualDirection(dir, axis_inverted)
       IN  /\ pin_log' = Append(pin_log,
                 [pin |-> "dir", time |-> print_time, level |-> level])
           /\ dir_pin_writes' = Append(dir_pin_writes, level)
    /\ print_time' = print_time + DirDelay
    /\ step' = 0
    /\ pc' = "step"
    /\ UNCHANGED << mscnt_reg, microstep_resolution, target_step, axis_inverted,
                    step_pin, dir_pin, shift, cnt, dir, flips, step_pin_writes,
                    error, step_inverted >>
    /\ UNCHANGED << compressVars, genVars, cmdVars >>

\* one iteration of "for step in range(steps)" (lines 739-742) with the pulse
\* of _execute_step_pulse_direct (lines 935-955)
StepPulse ==
    /\ pc = "step"
    /\ pin_log' = pin_log \o
         << [pin |-> "step", time |-> print_time,
             level |-> ActiveLevel(step_inverted)],
            [pin |-> "step", time |-> print_time + PulseWidth,
             level |-> InactiveLevel(step_inverted)] >>
    /\ step_pin_writes' = step_pin_writes + 2
    /\ print_time' = NextPulseTime(print_time)
    /\ step' = step + 1
    /\ pc' = IF LoopDone(step + 1, cnt) THEN "returned" ELSE "step"
    /\ UNCHANGED << mscnt_reg, microstep_resolution, target_step, axis_inverted,
                    step_pin, dir_pin, shift, cnt, dir, flips, dir_pin_writes,
                    error, step_inverted >>
    /\ UNCHANGED << compressVars, genVars, cmdVars >>

NextMove == PlanMove \/ SetDirPin \/ StepPulse

SpecMove == InitMove /\ [][NextMove]_vars

\* C14: the pin writes of a move are ordered in time: the direction write
\* comes first and strictly before the first pulse goes active; each pulse
\* goes active and then idle exactly one pulse width (1 us) later; each
\* pulse starts one step interval (1000 us) after the one before, which is
\* strictly after that one went idle.
C14_PulseOrder ==
    LET pulses == (Len(pin_log) - 1) \div 2
    IN  /\ Len(pin_log) > 0 =>
               (pin_log[1].pin = "dir" /\ Len(pin_log) % 2 = 1)
        /\ \A k \in 1..pulses :
             LET active == pin_log[2 * k]
                 idle   == pin_log[2 * k + 1]
             IN  /\ active.pin = "step" /\ idle.pin = "step"
                 /\ active.level # idle.level
                 /\ idle.time = active.time + 1
                 /\ k = 1 => active.time > pin_log[1].time
                 /\ k > 1 =>
                        /\ active.time > pin_log[2 * k - 1].time
                        /\ active.time = pin_log[2 * k - 2].time + 1000

\* C14 witness: a finished move of at least three pulses that started at
\* a last-move time other than 0
C14_Witness ==
    /\ pc = "returned" /\ Len(pin_log) >= 7
    /\ pin_log[1].time = 7 /\ step = cnt

---------------------------------------------------------------------------
\* _apply_linearity_correction (lines 228-250): the generation followed by
\* the write of the generated table, for the theoretical curves of Curves
\* and the four embedded ones

InitRegen ==
    /\ theo \in Curves \cup { TheoreticalValues(f) : f \in Factors }
    /\ carry = 0
    /\ prev_theoretical_value = 0
    /\ wave_table = << >>
    /\ pc = "gen"
    /\ error = "none"
    /\ CompressLocalsInit /\ PlanIdle /\ MoveIdle
    /\ cmd = "init" /\ factor_offset = 0
    /\ linearity_factor = MIN_LINEARITY_FACTOR
    /\ factor_before = MIN_LINEARITY_FACTOR
    /\ response = "none"
    /\ first_table = [f \in Factors |-> << >>]
    /\ mres_field = 0 /\ step_pos = 0

NextRegen == GenStep \/ StartWrite \/ WriteStart \/ CompressLoop \/ WriteSel

SpecRegen == InitRegen /\ [][NextRegen]_vars

\* C21: whatever the theoretical values, every step-to-step jump of the
\* generated table (the first entry relative to 0) lies in [-1, 3], also
\* where the clamp into [0, 248] changed the candidate; and the compression
\* of a generated table never meets a delta no case matches (b < 0).
C21_DeltaWindow ==
    /\ \A k \in 0..(Len(wave_table) - 1) :
         DeltaAt(wave_table, k) >= -1 /\ DeltaAt(wave_table, k) <= 3
    /\ b >= 0

\* C21 witness: a generated table was written although its theoretical
\* curve leaves [0, 248] upward (the clamp acts) and it has a jump of 3
C21_Witness ==
    /\ pc = "done" /\ Len(writes) = 17
    /\ \E k \in 1..TableLen : theo[k] > AMPLITUDE * Scale /\ wave_table[k] = AMPLITUDE
    /\ \E k \in 0..(TableLen - 1) : DeltaAt(wave_table, k) = 3

\* The field names of the register writes of one regeneration, in the order
\* of lines 380-381, 469-471 and 483-489.
WriteOrder ==
    << "start_sin", "start_sin90" >> \o MSLUT \o
    << "w0", "w1", "w2", "w3", "x1", "x2", "x3" >>

C23_CompressorState ==
    /\ s \in 0..3
    /\ \A k \in 1..4 : w[k] \in 0..3
    /\ \A k \in 1..3 : x[k] \in 0..255
    /\ x[1] <= x[2] /\ x[2] <= x[3]
    /\ \A k \in 1..(s - 1) : x[k] < x[k + 1]

C23_Witness ==
    /\ pc = "loop" /\ s = 3 /\ switches = 4
    /\ x[1] < x[2] /\ x[2] < x[3] /\ x[3] < i
    /\ w # << 1, 1, 1, 1 >>

\* C24: when the step pin and the direction pin are available, a positioning
\* with a planned step count N > 0 emits exactly one direction-pin write,
\* followed by exactly N step pulses: N active and N idle step-pin writes.
C24_OneDirThenPulses ==
    (pc = "returned" /\ PinAccess(step_pin, dir_pin) /\ cnt > 0) =>
        LET steps == { k \in 1..Len(pin_log) : pin_log[k].pin = "step" }
        IN  /\ Len(pin_log) = 1 + 2 * cnt
            /\ pin_log[1].pin = "dir"
            /\ Len(dir_pin_writes) = 1
            /\ steps = 2..Len(pin_log)
            /\ Cardinality({ k \in steps :
                   pin_log[k].level = ActiveLevel(step_inverted) }) = cnt
            /\ Cardinality({ k \in steps :
                   pin_log[k].level = InactiveLevel(step_inverted) }) = cnt
            /\ step_pin_writes = 2 * cnt

C24_Witness ==
    /\ pc = "returned" /\ step_pin /\ dir_pin
    /\ cnt = 5 /\ Len(pin_log) = 11 /\ step_inverted
    /\ pin_log[1].pin = "dir" /\ pin_log[11].pin = "step"

\* C25: the compression loop terminates for every 256-entry table.  It
\* takes the indices in increasing order and each at most once (one step
\* forward per iteration, one encoded bit per index passed), and it is left
\* either at the first index whose delta has no encoding, or after index
\* 255 (or by the exception of a failed register write, which ends the
\* call).
C25_LoopTerminates ==
    /\ <>(pc \notin {"start", "loop"})
    /\ [][pc = "loop" =>
            /\ i' \in {i, i + 1} /\ i' <= TableLen - 1
            /\ pc' \in {"loop", "sel", "raised"}
            /\ pc' = "loop" => (i' = i + 1 /\ b' >= 0 /\ Len(bits') = i')
            /\ pc' = "sel" =>
                  \/ b' < 0 /\ i' = i /\ Len(bits') = i
                  \/ b' >= 0 /\ i = TableLen - 1 /\ Len(bits') = TableLen
            /\ pc' = "raised" => (BlockEnd(i) /\ error' = "TransportFailure")
       ]_vars

C25_Witness ==
    /\ pc = "sel" /\ b < 0 /\ i = 32 /\ Len(bits) = 32
    /\ DeltaAt(wave_table, 32) > 3

\* C26: the out-of-range check is exact.  In every reachable family state
\* (d0 in -1..2, d1 = d0 + 1) the iteration ends with "no case matched"
\* (b < 0) if and only if the delta of the index is outside [-1,3]: a delta
\* in [-1,3] is encoded in the current family or matched by a switch case.
C26_RangeCheckExact ==
    [][pc = "loop" =>
         LET dA == wave_table[i + 1] - va
         IN  /\ d0 \in -1..2 /\ d1 = d0 + 1
             /\ d0' \in -1..2 /\ d1' = d0' + 1
             /\ b' < 0 <=> (dA < -1 \/ dA > 3)
    ]_vars

C26_Witness ==
    /\ pc = "sel" /\ b < 0 /\ switches = 2
    /\ d0 = -1 /\ d1 = 0
    /\ DeltaAt(wave_table, i) = 4

\* C27: the selector tracks the encoder.  After every processed index, as
\* long as no more than 3 family switches have been required, d1 = d0 + 1,
\* the code of the current segment names the family in use (w[s] = d0 + 1),
\* and each recorded switch changed the family (w[s] differs from w[s-1]).
C27_SelectorTracksEncoder ==
    switches <= 3 =>
        /\ d1 = d0 + 1
        /\ w[s + 1] = d0 + 1
        /\ s = switches
        /\ \A k \in 1..s : w[k + 1] # w[k]

C27_Witness ==
    /\ pc = "loop" /\ switches = 3 /\ s = 3
    /\ d0 = -1 /\ w[4] = 0 /\ w[3] = 3

\* C28: for every counter value, supported resolution and target in
\* [0, 4*resolution-1] the planner flips the direction at most once per
\* call: after the half-cycle flip the step count cycle - steps is positive,
\* so the negative-distance flip does not apply as well.
C28_AtMostOneFlip ==
    (pc = "returned" /\ Supported(microstep_resolution)) =>
        /\ flips <= 1
        /\ (target_step - Position > Cycle \div 2) =>
               (flips = 1 /\ cnt = Cycle - (target_step - Position) /\ cnt > 0)
        /\ (target_step - Position < 0) => flips = 1

C28_Witness ==
    /\ pc = "returned" /\ Supported(microstep_resolution)
    /\ Position = 0 /\ target_step = Cycle - 1
    /\ flips = 1 /\ cnt = 1

\* C29: the level written to the direction pin does not depend on the
\* axis-inversion setting: for the same counter, target and resolution it
\* is 1 when the planner did not flip and 0 when it flipped, with the axis
\* inverted or not.
C29_DirLevelIgnoresInversion ==
    dir_pin_writes # << >> =>
        /\ Len(dir_pin_writes) = 1
        /\ dir_pin_writes[1] = IF flips = 0 THEN 1 ELSE 0
        /\ flips = IF \/ target_step - Position > CycleLen(shift) \div 2
                      \/ target_step - Position < 0
                   THEN 1 ELSE 0

C29_Witness ==
    /\ pc = "returned" /\ axis_inverted
    /\ flips = 1 /\ dir = 1 /\ dir_pin_writes = << 0 >>

\* C30: when the step pin or the direction pin is not available, a
\* positioning command whose plan has a non-zero step count issues no pin
\* write at all and still completes without an error: the command reports
\* the move as done.
C30_NoPinsNoWrites ==
    (cmd = "set_step" /\ pc \in {"returned", "idle"}
        /\ cnt # 0 /\ ~(step_pin /\ dir_pin)) =>
        /\ NoPinWrite
        /\ error = "none"
        /\ pc = "idle" => response = "ok"

C30_Witness ==
    /\ cmd = "set_step" /\ pc = "idle" /\ response = "ok"
    /\ step_pin /\ ~dir_pin
    /\ cnt = 512 /\ NoPinWrite

=============================================================================
